---- MODULE Spec2Model ----
(***************************************************************************)
(* Model of the webhook agent: POST /api/messages (app.py), the A2A        *)
(* JSON-RPC task protocol (message/send, tasks/get), the Bot Activity      *)
(* handler (bot.py) and the query router and weather tool (main.py).       *)
(*                                                                         *)
(* Conventions.                                                            *)
(*  - A text (Python str) is a sequence of fragments; a fragment is a      *)
(*    string.  Texts the regular expressions look into (queries,           *)
(*    locations) have one character per fragment.  "" is <<>>.             *)
(*  - A JSON scalar is a pair <<tag, n>>: None == <<"none", 0>> is an      *)
(*    absent key or null, <<"str", 0>> is the empty string "", <<"str", k>>*)
(*    (k > 0) is the k-th client-chosen non-empty string, <<"num", k>> a   *)
(*    number, and <<"uuid", k>> the string of the k-th uuid4 the process   *)
(*    minted.                                                              *)
(*  - The result of a call is a record [kind, val, exc]: kind "return"     *)
(*    with the returned value val, or kind "raise" with the exception exc  *)
(*    (a record [type, msg] with msg a text).                              *)
(***************************************************************************)
EXTENDS Bags, Integers, Sequences, FiniteSets, TLC

----------------------------------------------------------------------------
(* Characters and texts *)

\* The characters of a text are those of U+0001..U+00FF.  Letters, word
\* characters and whitespace are the ones str and re (Unicode patterns) know.
UpperChars == <<"A","B","C","D","E","F","G","H","I","J","K","L","M",
                "N","O","P","Q","R","S","T","U","V","W","X","Y","Z",
                "À","Á","Â","Ã","Ä","Å","Æ","Ç","È","É","Ê","Ë","Ì",
                "Í","Î","Ï","Ð","Ñ","Ò","Ó","Ô","Õ","Ö","Ø","Ù","Ú",
                "Û","Ü","Ý","Þ">>
LowerChars == <<"a","b","c","d","e","f","g","h","i","j","k","l","m",
                "n","o","p","q","r","s","t","u","v","w","x","y","z",
                "à","á","â","ã","ä","å","æ","ç","è","é","ê","ë","ì",
                "í","î","ï","ð","ñ","ò","ó","ô","õ","ö","ø","ù","ú",
                "û","ü","ý","þ">>
\* lower-case letters whose capital is not among UpperChars
UnpairedLowerChars == {"ª","µ","º","ß","ÿ"}
\* the numeric characters \w accepts
DigitChars == {"0","1","2","3","4","5","6","7","8","9","²","³","¹","¼","½","¾"}
\* \s and str.strip(): tab, line feed, vertical tab, form feed, carriage
\* return, U+001C..U+001F, space, U+0085 and U+00A0
SpaceChars == {"\t", "\n", "", "\f", "\r", "", "", "", "", " ", "", " "}
\* U+0178, the capital of U+00FF; a module cannot spell the character itself
LatinCapitalYDiaeresis == "U+0178"

Range(s) == { s[i] : i \in 1..Len(s) }

IsUpper(c) == c \in Range(UpperChars)
IsLower(c) == c \in Range(LowerChars) \cup UnpairedLowerChars
\* the cased characters of str.title()
IsLetter(c) == IsUpper(c) \/ IsLower(c)
\* \w of the re module: letters, numeric characters and the underscore
IsWordChar(c) == IsLetter(c) \/ c \in DigitChars \/ c = "_"
IsSpace(c) == c \in SpaceChars

lower(c) == IF IsUpper(c)
            THEN LowerChars[CHOOSE i \in 1..Len(UpperChars) : UpperChars[i] = c]
            ELSE c
\* the title-case form str.title() gives a letter that starts a word
titlecase(c) ==
    IF c \in Range(LowerChars)
    THEN UpperChars[CHOOSE i \in 1..Len(LowerChars) : LowerChars[i] = c]
    ELSE IF c = "µ" THEN "Μ"
    ELSE IF c = "ß" THEN "Ss"
    ELSE IF c = "ÿ" THEN LatinCapitalYDiaeresis
    ELSE c

\* s[a..b], empty when a > b
Slice(s, a, b) == IF a > b THEN <<>> ELSE SubSeq(s, a, b)

\* str.strip(): whitespace removed at both ends
strip(s) ==
    LET keep == { i \in 1..Len(s) : ~IsSpace(s[i]) }
    IN IF keep = {} THEN <<>>
       ELSE Slice(s, CHOOSE i \in keep : \A j \in keep : i <= j,
                     CHOOSE i \in keep : \A j \in keep : i >= j)

\* str.strip("?"): question marks removed at both ends
stripQ(s) ==
    LET keep == { i \in 1..Len(s) : s[i] # "?" }
    IN IF keep = {} THEN <<>>
       ELSE Slice(s, CHOOSE i \in keep : \A j \in keep : i <= j,
                     CHOOSE i \in keep : \A j \in keep : i >= j)

\* str.title(): the first letter of every run of letters in upper case, the
\* other letters in lower case
title(s) ==
    [ i \in 1..Len(s) |->
        IF i = 1 \/ ~IsLetter(s[IF i = 1 THEN 1 ELSE i - 1])
        THEN titlecase(s[i]) ELSE lower(s[i]) ]

\* \b at the gap before position i (1..Len(s)+1)
WordBoundary(s, i) ==
    LET before == i > 1 /\ IsWordChar(s[i - 1])
        after  == i <= Len(s) /\ IsWordChar(s[i])
    IN before # after

\* the literal w (lower-case ASCII letters) matches s at position i, ignoring
\* case.  The characters re.IGNORECASE folds onto ASCII letters besides their
\* capitals (U+0130 and U+0131 onto i, U+017F onto s, U+212A onto k) lie
\* outside U+0001..U+00FF.
MatchesAt(s, i, w) ==
    /\ i >= 1
    /\ i + Len(w) - 1 <= Len(s)
    /\ \A k \in 1..Len(w) : lower(s[i + k - 1]) = w[k]

\* \bw\b matches s at position i, ignoring case
WordAt(s, i, w) ==
    /\ MatchesAt(s, i, w)
    /\ WordBoundary(s, i)
    /\ WordBoundary(s, i + Len(w))

Min(S) == CHOOSE x \in S : \A y \in S : x <= y
Max(S) == CHOOSE x \in S : \A y \in S : x >= y

\* F applied to the value of x: x is evaluated once, as a statement that
\* assigns it to a local variable does
On(x, F(_)) == CHOOSE y \in { F(v) : v \in {x} } : TRUE

----------------------------------------------------------------------------
(* main.py: the query router *)

Weather == <<"w","e","a","t","h","e","r">>

\* positions where \bweather\b matches, ignoring case
WeatherMatches(query) == { i \in 1..Len(query) : WordAt(query, i, Weather) }

\* re.search(r"\bweather\b", query, re.IGNORECASE)
\* (the mutant matches the lower-case spelling only)
looks_like_weather_query_CaseSensitive(query) ==
    \E i \in 1..Len(query) :
        /\ i + Len(Weather) - 1 <= Len(query)
        /\ \A k \in 1..Len(Weather) : query[i + k - 1] = Weather[k]
        /\ WordBoundary(query, i)
        /\ WordBoundary(query, i + Len(Weather))

looks_like_weather_query(query) == WeatherMatches(query) # {}

\* The tail of the pattern \b(?:in|for)\s+([^?\n\r]+) tried at position j with
\* the preposition w: the set holding the capture <<from, to>> when it matches.
\* \s+ is greedy and gives back whitespace until one character that is not
\* "?", "\n" or "\r" follows it; the capture is then as long as it can be.
PrepositionCapture(query, j, w) ==
    LET k == j + Len(w)
        ok(c) == c \notin {"?", "\n", "\r"}
        \* lengths r of whitespace \s+ may consume from k
        runs == { r \in 1..(Len(query) - k + 1) :
                    \A x \in k..(k + r - 1) : IsSpace(query[x]) }
        good == { r \in runs : k + r <= Len(query) /\ ok(query[k + r]) }
    IN IF WordBoundary(query, j) /\ MatchesAt(query, j, w) /\ good # {}
       THEN LET from == k + Max(good)
                to == Max({ e \in from..Len(query) :
                              \A x \in from..e : ok(query[x]) })
            IN { <<from, to>> }
       ELSE {}

\* re.search(r"\bweather\b.*?\b(?:in|for)\s+([^?\n\r]+)", query, re.IGNORECASE):
\* the set holding group 1 of the match, empty when there is no match.  The
\* leftmost "weather" from which the rest matches is taken, then the shortest
\* .*? (which does not cross "\n"), then "in" before "for".
LocationPatternGroup(query) ==
    LET tails(i) ==
            { j \in (i + Len(Weather))..Len(query) :
                /\ \A x \in (i + Len(Weather))..(j - 1) : query[x] # "\n"
                /\ PrepositionCapture(query, j, <<"i","n">>)
                     \cup PrepositionCapture(query, j, <<"f","o","r">>) # {} }
        starts == { i \in WeatherMatches(query) : tails(i) # {} }
    IN IF starts = {} THEN {}
       ELSE LET i == Min(starts)
                j == Min(tails(i))
                c == IF PrepositionCapture(query, j, <<"i","n">>) # {}
                     THEN CHOOSE p \in PrepositionCapture(query, j, <<"i","n">>) : TRUE
                     ELSE CHOOSE p \in PrepositionCapture(query, j, <<"f","o","r">>) : TRUE
            IN { Slice(query, c[1], c[2]) }

SeparatorChars == {",", ";", ".", "(", ")"}
SeparatorWords == { <<"i","n","c","l","u","d","i","n","g">>, <<"w","i","t","h">>,
                    <<"s","h","o","w">>, <<"g","i","v","e">>, <<"a","n","d">> }

\* one of , ; . ( ) or \bincluding\b \bwith\b \bshow\b \bgive\b \band\b at t
SeparatorAt(s, t) ==
    /\ t <= Len(s)
    /\ \/ s[t] \in SeparatorChars
       \/ \E w \in SeparatorWords : WordAt(s, t, w)

\* re.split(r"\s*(?:,|;|...)\s*", location, maxsplit=1, flags=re.IGNORECASE)[0]:
\* the text before the leftmost match; \s* takes the whitespace before the
\* separator into the match
SplitHead(s) ==
    LET afterSpaces(p) ==
            Min({ t \in p..(Len(s) + 1) : t = Len(s) + 1 \/ ~IsSpace(s[t]) })
        hits == { p \in 1..Len(s) : SeparatorAt(s, afterSpaces(p)) }
    IN IF hits = {} THEN s ELSE Slice(s, 1, Min(hits) - 1)

\* location = m.group(1).strip() if m else query.strip()
MatchedLocation(query, m) ==
    IF m # {} THEN On(CHOOSE g \in m : TRUE, strip) ELSE strip(query)

extract_location_from_weather_query(query) ==
    On(On(On(On(On(LocationPatternGroup(query),
                   LAMBDA m : MatchedLocation(query, m)),
                SplitHead), strip), stripQ), strip)

----------------------------------------------------------------------------
(* Results of calls, exceptions *)

NoExc == [type |-> "", msg |-> <<>>, status |-> <<>>, details |-> <<>>]
Exc(type, msg) == [type |-> type, msg |-> msg, status |-> <<>>, details |-> <<>>]
\* requests.exceptions.HTTPError carrying the provider's response: its status
\* code (<<>> when there is none) and the "message" of its JSON body (<<>>
\* when the body has none or does not parse)
HttpExc(status, details) ==
    [type |-> "HTTPError", msg |-> <<"HTTP error">>, status |-> status,
     details |-> details]

Return(v) == [kind |-> "return", val |-> v, exc |-> NoExc]
Raise(e)  == [kind |-> "raise", val |-> <<>>, exc |-> e]

----------------------------------------------------------------------------
(* main.py: get_weather *)

\* A geocoding place: its name and its coordinates <<lat, lon>>, <<>> when the
\* record has no 'lat'.  A weather payload: main is <<>> when the key is
\* missing, else <<[temp, humidity]>>; weather is the list of descriptions.
\* The keys shown are the ones get_weather reads; numbers are given by their
\* decimal text.

\* the characters json.dumps(..., ensure_ascii=False) escapes in a string,
\* and what it writes for each
JsonEscapedChars == <<"","","","","","","","","\t","\n","",
                      "\f","\r","","","","","","","","","",
                      "","","","","","","","","","\"","\\">>
JsonEscapes == <<"\\u0001","\\u0002","\\u0003","\\u0004","\\u0005","\\u0006",
                 "\\u0007","\\b","\\t","\\n","\\u000b","\\f",
                 "\\r","\\u000e","\\u000f","\\u0010","\\u0011","\\u0012",
                 "\\u0013","\\u0014","\\u0015","\\u0016","\\u0017","\\u0018",
                 "\\u0019","\\u001a","\\u001b","\\u001c","\\u001d","\\u001e",
                 "\\u001f","\\\"","\\\\">>
JsonChar(c) ==
    IF c \in Range(JsonEscapedChars)
    THEN JsonEscapes[CHOOSE i \in 1..Len(JsonEscapedChars) : JsonEscapedChars[i] = c]
    ELSE c
\* a str as JSON; a character that is escaped is a fragment of its own
JsonString(s) == <<"\"">> \o [ i \in 1..Len(s) |-> JsonChar(s[i]) ] \o <<"\"">>

\* The layout is that of indent=2: one key or list item per line, nested two
\* more spaces per level.
PlaceJson(place) ==
    <<"{\n    \"name\": ">> \o JsonString(place.name)
    \o <<",\n    \"lat\": ">> \o place.coords[1]
    \o <<",\n    \"lon\": ">> \o place.coords[2] \o <<"\n  }">>

RECURSIVE DescriptionsJson(_)
DescriptionsJson(ws) ==
    IF Len(ws) = 0 THEN <<>>
    ELSE <<"\n      {\n        \"description\": ">> \o JsonString(Head(ws))
         \o <<"\n      }">> \o (IF Len(ws) > 1 THEN <<",">> ELSE <<>>)
         \o DescriptionsJson(Tail(ws))

WeatherJson(data) ==
    <<"{\n    \"main\": {\n      \"temp\": ">> \o data.main[1].temp
    \o <<",\n      \"humidity\": ">> \o data.main[1].humidity
    \o <<"\n    },\n    \"weather\": [">> \o DescriptionsJson(data.weather)
    \o (IF Len(data.weather) = 0 THEN <<"]">> ELSE <<"\n    ]">>) \o <<"\n  }">>

\* json.dumps({"geocoding": geo_data[0], "weather": weather_data},
\*            ensure_ascii=False, indent=2)
RawPayloadJson(place, data) ==
    <<"{\n  \"geocoding\": ">> \o PlaceJson(place) \o <<",\n  \"weather\": ">>
    \o WeatherJson(data) \o <<"\n}">>

\* the three backquotes that open and close the JSON block; a module cannot
\* spell the backquote, so three apostrophes stand for them
CodeFence == "'''"

\* The body of the try block.  api_key: whether OPENWEATHER_API_KEY is set;
\* geo, wx: the outcomes of the geocoding and of the weather request (the
\* response's raise_for_status() and json() included).
get_weather_try(location, api_key, geo, wx) ==
    IF ~api_key
    THEN Return(<<"Weather API key not configured. Please set OPENWEATHER_API_KEY in .env file.">>)
    ELSE IF geo.kind = "raise" THEN Raise(geo.exc)
    ELSE IF Len(geo.val) = 0
    THEN Return(<<"Could not find coordinates for '">> \o location
                \o <<"'. Please check the location name.">>)
    ELSE IF geo.val[1].coords = <<>> THEN Raise(Exc("KeyError", <<"'lat'">>))
    ELSE IF wx.kind = "raise" THEN Raise(wx.exc)
    ELSE IF wx.val.main = <<>> THEN Raise(Exc("KeyError", <<"'main'">>))
    ELSE IF Len(wx.val.weather) = 0
    THEN Raise(Exc("IndexError", <<"list index out of range">>))
    ELSE Return(
        <<"FULL_OPENWEATHERMAP_API_RESPONSE (JSON):\n", CodeFence, "json\n">>
        \o RawPayloadJson(geo.val[1], wx.val)
        \o <<"\n", CodeFence, "\n\nSUMMARY:\n", "The weather in ">> \o title(location)
        \o <<" is ">> \o title(wx.val.weather[1])
        \o <<" with a temperature of ">> \o wx.val.main[1].temp
        \o <<"°C and humidity of ">> \o wx.val.main[1].humidity \o <<"%.">>)

\* the classes of requests.exceptions that "except RequestException" catches
\* once HTTPError has had its own clause: RequestException and its subclasses
RequestExceptionClasses ==
    {"RequestException", "InvalidJSONError", "JSONDecodeError",
     "ConnectionError", "ProxyError", "SSLError", "Timeout", "ConnectTimeout",
     "ReadTimeout", "URLRequired", "TooManyRedirects", "MissingSchema",
     "InvalidSchema", "InvalidURL", "InvalidProxyURL", "InvalidHeader",
     "ChunkedEncodingError", "ContentDecodingError", "StreamConsumedError",
     "RetryError", "UnrewindableBodyError"}

\* the except clauses, in order: HTTPError, RequestException, KeyError, Exception
\* (the mutant has no final "except Exception" clause)
get_weather_except_NoCatchAll(r) ==
    IF r.kind = "return" THEN r
    ELSE IF r.exc.type = "HTTPError"
    THEN Return(<<"OpenWeatherMap API error">>
                \o (IF r.exc.status # <<>>
                    THEN <<" (">> \o r.exc.status \o <<")">> ELSE <<>>)
                \o <<".">>
                \o (IF r.exc.details # <<>>
                    THEN <<" Details: ">> \o r.exc.details ELSE <<>>))
    ELSE IF r.exc.type \in RequestExceptionClasses
    THEN Return(<<"Network/connection error fetching weather data: ">> \o r.exc.msg)
    ELSE IF r.exc.type = "KeyError"
    THEN Return(<<"Error parsing weather data: Missing field ">> \o r.exc.msg
                \o <<". This might be due to API limitations.">>)
    ELSE r

get_weather_except(r) ==
    LET h == get_weather_except_NoCatchAll(r)
    IN IF h.kind = "return" THEN h
       ELSE Return(<<"Unexpected error getting weather: ">> \o r.exc.msg)

get_weather(location, api_key, geo, wx) ==
    On(get_weather_try(location, api_key, geo, wx), get_weather_except)

----------------------------------------------------------------------------
(* main.py: OpenAIAgent.run_query *)

\* Values run_query returns: a str, or the agent capability's response object
\* with its .text and the texts of its .messages
StrVal(t) == [type |-> "str", text |-> t, messages |-> <<>>]
AgentRunResponse(t, msgs) == [type |-> "AgentRunResponse", text |-> t, messages |-> msgs]

\* run_query answers [kind, val, exc, calls], calls being the collaborators
\* called, in order.
\* return get_weather(location)
FromTool(r) ==
    [kind |-> r.kind,
     val |-> IF r.kind = "return" THEN StrVal(r.val) ELSE StrVal(<<>>),
     exc |-> r.exc, calls |-> <<"get_weather">>]

\* result = await self.agent.run(query); return result
FromAgent(agent) ==
    [kind |-> agent.kind,
     val |-> IF agent.kind = "return" THEN agent.val ELSE StrVal(<<>>),
     exc |-> agent.exc, calls |-> <<"agent.run">>]

\* The body of the try block; agent is the outcome of agent.run(query).
run_query_try(query, api_key, geo, wx, agent) ==
    IF looks_like_weather_query(query)
    THEN On(extract_location_from_weather_query(query),
            LAMBDA location : On(get_weather(location, api_key, geo, wx), FromTool))
    ELSE FromAgent(agent)

\* except Exception as e: return f"Error processing query: {str(e)}"
\* (the mutant lets the exception propagate)
run_query_except_Reraise(r) == r

run_query_except(r) ==
    IF r.kind = "raise"
    THEN [kind |-> "return",
          val |-> StrVal(<<"Error processing query: ">> \o r.exc.msg),
          exc |-> NoExc, calls |-> r.calls]
    ELSE r

run_query(query, api_key, geo, wx, agent) ==
    On(run_query_try(query, api_key, geo, wx, agent), run_query_except)

\* whether run_query(query) awaits the agent capability (its one suspension
\* point; the weather tool's HTTP calls block without yielding)
AwaitsAgent(query) == ~looks_like_weather_query(query)

\* hasattr(r, 'text') and r.text / hasattr(r, 'messages') and r.messages /
\* str(r)   (app.py 134-139, bot.py 26-34).  A str has neither attribute;
\* str() of the agent capability's response object is its .text
ResponseText(r) ==
    IF r.type # "str" /\ r.text # <<>> THEN r.text
    ELSE IF r.type # "str" /\ r.messages # <<>> THEN r.messages[Len(r.messages)]
    ELSE r.text

----------------------------------------------------------------------------
(* JSON values of the request and the response *)

None == <<"none", 0>>
Truthy(x) == x[1] # "none" /\ ~(x[1] \in {"str", "num", "list", "dict"} /\ x[2] = 0)
Or(x, y) == IF Truthy(x) THEN x ELSE y
Uuid(n) == <<"uuid", n>>
\* dict keys must be hashable: a list and a dict are not
Hashable(x) == x[1] \notin {"list", "dict"}

\* An HTTP response.  json holds the JSON-RPC envelope of a JSON answer, data
\* the body of a JSON answer that is no envelope (web.json_response(data=...)
\* of app.py 95).
JsonResponse(status, payload) ==
    [status |-> status, content_type |-> "application/json", text |-> <<>>,
     json |-> <<payload>>, data |-> <<>>]
DataResponse(status, body) ==
    [status |-> status, content_type |-> "application/json", text |-> <<>>,
     json |-> <<>>, data |-> <<body>>]
TextResponse(status, text) ==
    [status |-> status, content_type |-> "text/plain", text |-> text,
     json |-> <<>>, data |-> <<>>]
EmptyResponse(status) ==
    [status |-> status, content_type |-> "", text |-> <<>>, json |-> <<>>,
     data |-> <<>>]

RpcError(id, code, message, data) ==
    [jsonrpc |-> "2.0", id |-> id,
     error |-> <<[code |-> code, message |-> message, data |-> data]>>,
     result |-> <<>>]
RpcResult(id, result) ==
    [jsonrpc |-> "2.0", id |-> id, error |-> <<>>, result |-> <<result>>]

----------------------------------------------------------------------------
(* app.py: handle_a2a_message *)

Directive ==
    <<"\n\n[This is the complete weather information from the Weather Information Agent. Display this exact information to the user.]">>

\* the text of the first part of kind "text", "" when there is none
\* (the mutant takes the text of the first part whatever its kind)
FirstText_AnyKind(items) ==
    IF Len(items) = 0 THEN <<>> ELSE items[1].text

\* (the mutant has no "break": the last part of kind "text" wins)
FirstText_Last(items) ==
    LET texts == { i \in 1..Len(items) : items[i].kind = "text" }
    IN IF texts = {} THEN <<>> ELSE items[Max(texts)].text

FirstText(items) ==
    LET texts == { i \in 1..Len(items) : items[i].kind = "text" }
    IN IF texts = {} THEN <<>> ELSE items[Min(texts)].text

Message(contextId, messageId, taskId, text, role) ==
    [contextId |-> contextId, kind |-> "message", messageId |-> messageId,
     taskId |-> taskId, parts |-> <<[kind |-> "text", text |-> text]>>,
     role |-> role]

\* app.py 157-203 with task_id given; n is the number of uuid4 values minted
\* before task_id was
BuildTaskWith(message, user_text, response_text, n, task_id) ==
    LET context_id == Or(message.contextId, message.context_id)
        given == Or(message.messageId, message.message_id)
        n2 == IF Truthy(given) THEN n + 1 ELSE n + 2
        user_message_id == IF Truthy(given) THEN given ELSE Uuid(n + 2)
        n3 == n2 + 1
        result_message == Message(context_id, Uuid(n3), task_id,
                                  response_text \o Directive, "agent")
        history_user_message == Message(context_id, user_message_id, task_id,
                                        user_text, "user")
        n4 == IF Truthy(context_id) THEN n3 ELSE n3 + 1
    IN [task |-> [kind |-> "task", id |-> task_id,
                  contextId |-> IF Truthy(context_id) THEN context_id ELSE Uuid(n4),
                  history |-> <<history_user_message, result_message>>,
                  status |-> [state |-> "completed", message |-> result_message]],
        uuids |-> n4]

\* (the mutant gives every task the first identifier minted)
BuildTask_FixedId(message, user_text, response_text, n) ==
    BuildTaskWith(message, user_text, response_text, n, Uuid(1))

\* (the mutant appends the directive to the replies of the weather tool only)
BuildTask_DirectiveForWeatherOnly(message, user_text, response_text, n) ==
    IF looks_like_weather_query(user_text)
    THEN BuildTaskWith(message, user_text, response_text, n, Uuid(n + 1))
    ELSE [ BuildTaskWith(message, user_text, response_text, n, Uuid(n + 1))
             EXCEPT !.task.history[2].parts[1].text = response_text,
                    !.task.status.message.parts[1].text = response_text ]

\* task_id = str(uuid.uuid4()) and the rest of app.py 157-203
BuildTask(message, user_text, response_text, n) ==
    BuildTaskWith(message, user_text, response_text, n, Uuid(n + 1))

\* A2A_TASKS[task_id] = result_task
Put(tasks, id, task) ==
    [k \in DOMAIN tasks \cup {id} |-> IF k = id THEN task ELSE tasks[k]]

\* body.get("params", {}), params.get("message", {}), message.get("parts", []):
\* an absent key gives the default, a null makes the next access raise
NoMessage ==
    [shape |-> "absent", contextId |-> None, context_id |-> None,
     messageId |-> None, message_id |-> None,
     parts |-> [shape |-> "absent", items |-> <<>>]]

\* The outcome of handling one request:
\*   resp   the HTTP response,
\*   tasks  A2A_TASKS afterwards, uuids the number of uuid4 values minted,
\*   calls  the handlers and collaborators called, in order,
\*   sent   the texts sent back through the bot transport.
Outcome(resp, tasks, uuids, calls, sent) ==
    [resp |-> resp, tasks |-> tasks, uuids |-> uuids, calls |-> calls, sent |-> sent]

\* A raise inside a handler, carrying the calls made before it
RaiseAfter(e, calls) == [kind |-> "raise", val |-> calls, exc |-> e]

\* params.get("message", {})
MessageIn(params) == IF params.shape = "absent" THEN NoMessage ELSE params.message

\* app.py 157-225: the Task is built, stored and answered
StoreAndAnswer(body, b, calls, tasks) ==
    Return(Outcome(JsonResponse(200, RpcResult(body.id, b.task)),
                   Put(tasks, b.task.id, b.task), b.uuids, calls, <<>>))

\* app.py 131-225: r is what run_query answered
AfterRunQuery(body, message, user_text, r, tasks, uuids) ==
    IF r.kind = "raise"
    THEN RaiseAfter(r.exc, <<"handle_a2a_message", "run_query">> \o r.calls)
    ELSE On(BuildTask(message, user_text, ResponseText(r.val), uuids),
            LAMBDA b : StoreAndAnswer(body, b,
                                      <<"handle_a2a_message", "run_query">> \o r.calls,
                                      tasks))

\* app.py 109-131: the text is extracted and run_query is called
ExtractAndRun(body, message, user_text, tasks, uuids, api_key, geo, wx, agent) ==
    IF body.params.shape = "null" \/ message.shape = "null"
    THEN RaiseAfter(Exc("AttributeError",
                        <<"'NoneType' object has no attribute 'get'">>),
                    <<"handle_a2a_message">>)
    ELSE IF message.parts.shape = "null"
    THEN RaiseAfter(Exc("TypeError", <<"'NoneType' object is not iterable">>),
                    <<"handle_a2a_message">>)
    ELSE IF user_text = <<>>
    THEN Return(Outcome(
             JsonResponse(400, RpcError(body.id, -32600,
                                        <<"No text found in message">>, None)),
             tasks, uuids, <<"handle_a2a_message">>, <<>>))
    ELSE On(run_query(user_text, api_key, geo, wx, agent),
            LAMBDA r : AfterRunQuery(body, message, user_text, r, tasks, uuids))

\* The try block of handle_a2a_message(body): a raise, or the Outcome.
handle_a2a_message_try(body, tasks, uuids, api_key, geo, wx, agent) ==
    On(MessageIn(body.params),
       LAMBDA message :
           On(FirstText(message.parts.items),
              LAMBDA user_text :
                  ExtractAndRun(body, message, user_text, tasks, uuids,
                                api_key, geo, wx, agent)))

\* (the mutant records the failure in the task store, as a failed Task)
handle_a2a_message_except_StoresFailure(body, r, tasks, uuids) ==
    IF r.kind = "return" THEN r.val
    ELSE Outcome(JsonResponse(500, RpcError(body.id, -32603,
                                  <<"Internal error: ">> \o r.exc.msg, None)),
                 Put(tasks, Uuid(uuids + 1),
                     [kind |-> "task", id |-> Uuid(uuids + 1),
                      status |-> [state |-> "failed"]]),
                 uuids + 1, r.val, <<>>)

\* the except clause of handle_a2a_message answers -32603
handle_a2a_message_except(body, r, tasks, uuids) ==
    IF r.kind = "return" THEN r.val
    ELSE Outcome(JsonResponse(500, RpcError(body.id, -32603,
                                  <<"Internal error: ">> \o r.exc.msg, None)),
                 tasks, uuids, r.val, <<>>)

handle_a2a_message(body, tasks, uuids, api_key, geo, wx, agent) ==
    On(handle_a2a_message_try(body, tasks, uuids, api_key, geo, wx, agent),
       LAMBDA r : handle_a2a_message_except(body, r, tasks, uuids))

----------------------------------------------------------------------------
(* app.py: handle_a2a_tasks_get *)

\* A2A_TASKS.get(task_id): the set holding the task, empty when there is none
Get(tasks, id) == IF id \in DOMAIN tasks THEN {tasks[id]} ELSE {}

\* (the mutant looks the task up and removes it, as dict.pop would)
TasksAfterGet_Pop(tasks, id) == [k \in DOMAIN tasks \ {id} |-> tasks[k]]

\* tasks/get leaves A2A_TASKS as it is
TasksAfterGet(tasks, id) == tasks

handle_a2a_tasks_get(body, tasks, uuids) ==
    LET params == body.params
        task_id == IF params.shape = "absent" THEN None ELSE params.id
        calls == <<"handle_a2a_tasks_get">>
    IN IF params.shape = "null"
       THEN Outcome(JsonResponse(500, RpcError(body.id, -32603,
                        <<"Internal error: ", "'NoneType' object has no attribute 'get'">>,
                        None)),
                    tasks, uuids, calls, <<>>)
       ELSE IF ~Truthy(task_id)
       THEN Outcome(JsonResponse(400, RpcError(body.id, -32602,
                        <<"Invalid parameters: missing params.id">>, None)),
                    tasks, uuids, calls, <<>>)
       ELSE IF ~Hashable(task_id)
       THEN Outcome(JsonResponse(500, RpcError(body.id, -32603,
                        <<"Internal error: ", "unhashable type: '", task_id[1], "'">>, None)),
                    tasks, uuids, calls, <<>>)
       ELSE IF Get(tasks, task_id) = {}
       THEN Outcome(JsonResponse(404, RpcError(body.id, -32001,
                        <<"Task not found">>, task_id)),
                    tasks, uuids, calls, <<>>)
       ELSE Outcome(JsonResponse(200, RpcResult(body.id,
                        CHOOSE t \in Get(tasks, task_id) : TRUE)),
                    TasksAfterGet(tasks, task_id), uuids, calls, <<>>)

----------------------------------------------------------------------------
(* bot.py: MyAgentBot *)

\* "test.com" in error_msg (the host is a fragment of the messages that name it)
MentionsTestHost(msg) == \E i \in 1..Len(msg) : msg[i] = "test.com"

\* A turn of the bot so far: the handlers and collaborators called, the texts
\* sent, the number of send_activity calls that have ended, the exception
\* that is propagating (NoExc when none is), and whether the turn waits at
\* "await turn_context.send_activity" for an outcome not yet there.
Turn(calls) ==
    [calls |-> calls, sent |-> <<>>, used |-> 0, exc |-> NoExc, waits |-> FALSE]

\* await turn_context.send_activity(text); sends are the outcomes of the
\* send_activity calls of the turn, in order
send_activity(t, text, sends) ==
    IF t.used + 1 > Len(sends) THEN [t EXCEPT !.waits = TRUE]
    ELSE IF sends[t.used + 1].kind = "return"
    THEN [t EXCEPT !.sent = Append(@, text), !.used = @ + 1]
    ELSE [t EXCEPT !.used = @ + 1, !.exc = sends[t.used + 1].exc]

\* bot.py 25-39: r is what run_query answered
ReplyTo(r, sends) ==
    IF r.kind = "return"
    THEN send_activity(Turn(<<"on_message_activity", "run_query">> \o r.calls),
                       ResponseText(r.val), sends)
    ELSE [Turn(<<"on_message_activity", "run_query">> \o r.calls)
            EXCEPT !.exc = r.exc]

\* bot.py 11-39: the try block
on_message_activity_try(text, api_key, geo, wx, agent, sends) ==
    IF text = <<>>
    THEN send_activity(Turn(<<"on_message_activity">>),
                       <<"Please send a message.">>, sends)
    ELSE On(run_query(text, api_key, geo, wx, agent),
            LAMBDA r : ReplyTo(r, sends))

\* bot.py 41-48: the except clause; an exception of its own send_activity
\* leaves the handler
on_message_activity_except(t, sends) ==
    IF t.waits \/ t.exc = NoExc THEN t
    ELSE IF MentionsTestHost(t.exc.msg) THEN [t EXCEPT !.exc = NoExc]
    ELSE send_activity([t EXCEPT !.exc = NoExc],
                       <<"Sorry, I encountered an error: ">> \o t.exc.msg, sends)

on_message_activity(text, api_key, geo, wx, agent, sends) ==
    On(on_message_activity_try(text, api_key, geo, wx, agent, sends),
       LAMBDA t : on_message_activity_except(t, sends))

\* OpenAIAgent.agent_name: os.getenv("AGENT_NAME", "OpenAI-Agent"), the
\* variable not set
agent_name == "OpenAI-Agent"

\* on_members_added_activity: a greeting for every member but the bot itself;
\* a send_activity that raises ends the loop
RECURSIVE on_members_added_activity(_, _, _, _)
on_members_added_activity(members_added, recipient, t, sends) ==
    IF members_added = <<>> \/ t.waits \/ t.exc # NoExc THEN t
    ELSE on_members_added_activity(
             Tail(members_added), recipient,
             IF members_added[1] # recipient
             THEN send_activity(t, <<"Hello! I'm ", agent_name, ". How can I help you?">>,
                                sends)
             ELSE t,
             sends)

\* ActivityHandler.on_turn: dispatch on the activity type; the recipient of
\* the activity is the bot, "bot".  A conversationUpdate reaches
\* on_members_added_activity when it names members.
on_turn(activity, api_key, geo, wx, agent, sends) ==
    IF activity.type = "message"
    THEN on_message_activity(activity.text, api_key, geo, wx, agent, sends)
    ELSE IF activity.type = "conversationUpdate" /\ activity.members_added # <<>>
    THEN on_members_added_activity(activity.members_added, "bot",
                                   Turn(<<"on_members_added_activity">>), sends)
    ELSE Turn(<<>>)

----------------------------------------------------------------------------
(* app.py: messages, the handler of POST /api/messages *)

\* "application/json" in req.content_type
IsJsonContentType(content_type) ==
    \E i \in 1..Len(content_type) : content_type[i] = "application/json"

\* "jsonrpc" in body and body.get("method")
\* (the mutant looks at the "jsonrpc" key alone)
IsJsonRpc_KeyOnly(body) == body.jsonrpc

IsJsonRpc(body) == body.jsonrpc /\ body.method # ""

\* the answer to an unsupported method
\* (the mutant answers with a null id)
MethodNotFound_NullId(body) ==
    JsonResponse(400, RpcError(None, -32601, <<"Method not found: ", body.method>>, None))

MethodNotFound(body) ==
    JsonResponse(400, RpcError(body.id, -32601, <<"Method not found: ", body.method>>, None))

\* app.py 29-37: ADAPTER.on_turn_error.  The adapter calls it with the
\* exception that left the turn; what its own send_activity raises is dropped.
on_error(t, sends) ==
    IF t.waits \/ t.exc = NoExc THEN t
    ELSE On(send_activity([t EXCEPT !.exc = NoExc, !.calls = Append(@, "on_error")],
                          <<"Sorry, an error occurred.">>, sends),
            LAMBDA u : [u EXCEPT !.exc = NoExc])

\* ADAPTER.process_activity(activity, auth_header, BOT.on_turn), the turn
process_activity(activity, api_key, env) ==
    On(on_turn(activity, api_key, env.geo, env.wx, env.agent, env.sends),
       LAMBDA t : on_error(t, env.sends))

\* app.py 91-98: the adapter ran the turn t and returned response, <<>> for
\* None and else <<[status, body]>>.  A turn that waits has no response yet.
Processed(t, response, tasks, uuids) ==
    Outcome(IF t.waits THEN EmptyResponse(0)
            ELSE IF response # <<>>
            THEN DataResponse(response[1].status, response[1].body)
            ELSE EmptyResponse(201),
            tasks, uuids, <<"ADAPTER.process_activity">> \o t.calls, t.sent)

\* The whole handler.  env holds the outcomes of the collaborators it may
\* call: geo, wx (the weather provider), agent (agent.run), auth (the bot
\* adapter: its authentication of the activity raises, or the value
\* process_activity returns), sends (the send_activity calls).
messages(req, tasks, uuids, api_key, env) ==
    IF ~IsJsonContentType(req.content_type)
    THEN Outcome(TextResponse(415, <<"Content-Type must be application/json">>),
                 tasks, uuids, <<>>, <<>>)
    ELSE IF ~req.parses
    THEN \* req.json() raises inside the outer try
         Outcome(TextResponse(500, <<"Internal server error: ",
                                     "Expecting value: line 1 column 1 (char 0)">>),
                 tasks, uuids, <<>>, <<>>)
    ELSE IF IsJsonRpc(req.body)
    THEN IF req.body.method = "message/send"
         THEN handle_a2a_message(req.body, tasks, uuids, api_key,
                                 env.geo, env.wx, env.agent)
         ELSE IF req.body.method = "tasks/get"
         THEN handle_a2a_tasks_get(req.body, tasks, uuids)
         ELSE Outcome(MethodNotFound(req.body), tasks, uuids, <<>>, <<>>)
    ELSE IF req.body.type = ""
    THEN Outcome(TextResponse(400, <<"Missing activity type">>),
                 tasks, uuids, <<>>, <<>>)
    ELSE IF env.auth.kind = "raise"
    THEN Outcome(TextResponse(500, <<"Internal server error: ">> \o env.auth.exc.msg),
                 tasks, uuids, <<"ADAPTER.process_activity">>, <<>>)
    ELSE On(process_activity(req.body, api_key, env),
            LAMBDA t : Processed(t, env.auth.val, tasks, uuids))

\* the query the handler of req hands to run_query, <<>> when it does not
QueryOf(req) ==
    IF ~IsJsonContentType(req.content_type) \/ ~req.parses THEN <<>>
    ELSE IF IsJsonRpc(req.body)
    THEN IF /\ req.body.method = "message/send"
            /\ req.body.params.shape = "object"
            /\ req.body.params.message.shape = "object"
            /\ req.body.params.message.parts.shape # "null"
         THEN FirstText(req.body.params.message.parts.items)
         ELSE <<>>
    ELSE IF req.body.type = "message" THEN req.body.text ELSE <<>>

\* whether the handler of req suspends at "await self.agent.run(query)"
Suspends(req, env) ==
    /\ On(QueryOf(req), LAMBDA query : query # <<>> /\ AwaitsAgent(query))
    /\ IsJsonRpc(req.body) \/ env.auth.kind = "return"

\* whether the handler of req, the outcomes of env known, waits at
\* "await turn_context.send_activity" (bot.py 18, 39, 48, 55; app.py 33)
AwaitsSend(req, api_key, env) ==
    /\ IsJsonContentType(req.content_type) /\ req.parses
    /\ ~IsJsonRpc(req.body)
    /\ req.body.type # ""
    /\ env.auth.kind = "return"
    /\ On(process_activity(req.body, api_key, env), LAMBDA t : t.waits)

----------------------------------------------------------------------------
(* The inputs: requests and the outcomes of the collaborators *)

MaxTasks == 2          \* Tasks stored, in the specification of the protocol
MaxPending == 1        \* handlers suspended at one time
MaxOutcomeTasks == 1   \* Tasks stored, in the specification of the outcomes

JsonType == <<"application/json">>
JsonPatchType == <<"application/json", "-patch+json">>

Hi == <<"h","i">>
WeatherInOslo == <<"W","e","a","t","h","e","r"," ","i","n"," ","O","s","l","o","?">>

NoParams == [shape |-> "absent", message |-> NoMessage, id |-> None]
NullParams == [shape |-> "null", message |-> NoMessage, id |-> None]
NullMessage == [NoMessage EXCEPT !.shape = "null"]

Part(kind, text) == [kind |-> kind, text |-> text]
Parts(items) == [shape |-> "array", items |-> items]
\* a message with the identifiers meta = <<contextId, context_id, messageId,
\* message_id>>
MessageOf(meta, parts) ==
    [shape |-> "object", contextId |-> meta[1], context_id |-> meta[2],
     messageId |-> meta[3], message_id |-> meta[4], parts |-> parts]

Body(jsonrpc, method, id, params, type, text, members_added) ==
    [jsonrpc |-> jsonrpc, method |-> method, id |-> id, params |-> params,
     type |-> type, text |-> text, members_added |-> members_added]
Request(content_type, parses, body) ==
    [content_type |-> content_type, parses |-> parses, body |-> body]

NoBody == Body(FALSE, "", None, NoParams, "", <<>>, <<>>)

SendBody(id, message) ==
    Body(TRUE, "message/send", id,
         [shape |-> "object", message |-> message, id |-> None], "", <<>>, <<>>)
GetBody(id, task_id) ==
    Body(TRUE, "tasks/get", id,
         [shape |-> "object", message |-> NoMessage, id |-> task_id], "", <<>>, <<>>)
ActivityBody(jsonrpc, type, text, members_added) ==
    Body(jsonrpc, "", None, NoParams, type, text, members_added)
Send(id, meta, items) == Request(JsonType, TRUE, SendBody(id, MessageOf(meta, Parts(items))))

\* the identifiers a client may put into a message
NoMeta == <<None, None, None, None>>
MessageMetas ==
    { NoMeta,
      <<<<"str", 1>>, None, <<"str", 2>>, None>>,
      <<None, <<"str", 1>>, None, <<"str", 2>>>>,
      <<<<"str", 0>>, None, <<"str", 0>>, None>> }

WeatherParts == <<Part("file", <<>>), Part("text", WeatherInOslo), Part("text", <<>>)>>
HiParts == <<Part("data", <<>>), Part("text", Hi)>>

\* part lists from which no text is extracted
TextlessPartLists ==
    { <<>>,
      <<Part("data", <<>>)>>,
      <<Part("data", Hi), Part("file", Hi)>>,
      <<Part("text", <<>>)>>,
      <<Part("text", <<>>), Part("text", Hi)>> }

\* message/send requests that stop before the agent is asked
FailingSendRequests ==
    { Send(id, NoMeta, items) : id \in {<<"num", 7>>}, items \in TextlessPartLists }
    \cup { Send(None, NoMeta, <<>>) }
    \cup { Request(JsonType, TRUE, SendBody(<<"num", 7>>, m)) :
             m \in { MessageOf(NoMeta, [shape |-> "absent", items |-> <<>>]),
                     MessageOf(NoMeta, [shape |-> "null", items |-> <<>>]),
                     NoMessage, NullMessage } }
    \cup { Request(JsonType, TRUE, Body(TRUE, "message/send", <<"num", 7>>, p, "", <<>>, <<>>)) :
             p \in {NoParams, NullParams} }

\* the message/send requests of the protocol specification
SendRequests ==
    FailingSendRequests
    \cup { Send(<<"num", 7>>, NoMeta, HiParts) }
    \cup { Send(<<"num", 8>>, meta, WeatherParts) : meta \in MessageMetas }

\* the message/send requests of the outcomes specification
OutcomeSendRequests ==
    { Send(<<"num", 7>>, NoMeta, items) :
        items \in { HiParts, WeatherParts, <<Part("text", <<>>), Part("text", Hi)>>,
                    <<Part("data", Hi)>> } }
    \cup { Request(JsonType, TRUE, SendBody(<<"num", 7>>, NullMessage)) }

\* task ids a client may ask for: absent, "", a string never issued, lists,
\* and every uuid4 string minted so far (task ids and other identifiers)
TaskIdsAsked(n) ==
    { None, <<"str", 0>>, <<"str", 3>>, <<"list", 0>>, <<"list", 1>> }
    \cup { Uuid(k) : k \in 1..n }

GetRequests(n) ==
    { Request(JsonType, TRUE, GetBody(<<"num", 9>>, t)) : t \in TaskIdsAsked(n) }
    \cup { Request(JsonType, TRUE, GetBody(None, <<"str", 3>>)) }
    \cup { Request(JsonType, TRUE, Body(TRUE, "tasks/get", <<"num", 9>>, p, "", <<>>, <<>>)) :
             p \in {NoParams, NullParams} }

UnknownMethodRequests ==
    { Request(JsonType, TRUE, Body(TRUE, m, id, NoParams, "", <<>>, <<>>)) :
        m \in {"tasks/cancel", "message/stream"}, id \in {None, <<"num", 7>>} }
    \cup { Request(JsonType, TRUE, Body(TRUE, "tasks/cancel", <<"num", 7>>, p, "message", Hi, <<>>)) :
             p \in { NullParams,
                     [shape |-> "object",
                      message |-> MessageOf(NoMeta, Parts(HiParts)), id |-> Uuid(1)] } }

ActivityRequests ==
    { Request(JsonType, TRUE, ActivityBody(FALSE, type, text, <<>>)) :
        type \in {"", "message", "typing"}, text \in {<<>>, Hi, WeatherInOslo} }
    \cup { Request(JsonType, TRUE, ActivityBody(FALSE, "invoke", <<>>, <<>>)) }
    \cup { Request(JsonType, TRUE, ActivityBody(TRUE, type, <<>>, <<>>)) :
             type \in {"", "message"} }
    \cup { Request(JsonType, TRUE, ActivityBody(FALSE, "conversationUpdate", <<>>, m)) :
             m \in {<<>>, <<"bot">>, <<"user", "bot">>} }
    \cup { Request(JsonPatchType, TRUE, ActivityBody(FALSE, "", <<>>, <<>>)) }

WrongContentTypeRequests ==
    { Request(ct, parses, body) :
        ct \in {<<"text/plain">>, <<"application/xml">>}, parses \in BOOLEAN,
        body \in { NoBody, SendBody(<<"num", 7>>, MessageOf(NoMeta, Parts(HiParts))),
                   ActivityBody(FALSE, "message", WeatherInOslo, <<>>) } }

UnparseableRequests ==
    { Request(ct, FALSE, NoBody) : ct \in {JsonType, JsonPatchType} }

\* outcomes of the collaborators
NotCalled == [kind |-> "notcalled", val |-> <<>>, exc |-> NoExc]

Oslo == [name |-> <<"Oslo">>, coords |-> <<<<"59.91">>, <<"10.75">>>>]
GeoOk == Return(<<Oslo>>)
GeoOutcomes ==
    { GeoOk,
      Return(<<>>),
      Return(<<[name |-> <<"Oslo">>, coords |-> <<>>]>>),
      Raise(HttpExc(<<"401">>, <<"Invalid API key">>)),
      Raise(HttpExc(<<"502">>, <<>>)),
      Raise(HttpExc(<<>>, <<>>)),
      Raise(Exc("ConnectionError", <<"Connection refused">>)),
      \* geo_response.json() on a body that is not JSON
      Raise(Exc("JSONDecodeError", <<"Expecting value: line 1 column 1 (char 0)">>)),
      \* an exception of no class the except clauses name
      Raise(Exc("ValueError", <<"unexpected geocoding payload">>)) }

WxOk == Return([main |-> <<[temp |-> <<"4.2">>, humidity |-> <<"81">>]>>,
                weather |-> <<<<"l","i","g","h","t"," ","r","a","i","n">>>>])
WxOutcomes ==
    { WxOk,
      Return([main |-> <<>>, weather |-> <<<<"r","a","i","n">>>>]),
      Return([main |-> <<[temp |-> <<"4.2">>, humidity |-> <<"81">>]>>, weather |-> <<>>]),
      Raise(HttpExc(<<"429">>, <<"rate limit">>)),
      Raise(Exc("ReadTimeout", <<"Read timed out. (read timeout=10)">>)) }

\* the provider outcomes one call of get_weather can meet: the weather request
\* is made only after a geocoding answer
ToolOutcomes ==
    { <<g, NotCalled>> : g \in GeoOutcomes \ {GeoOk} }
    \cup { <<GeoOk, w>> : w \in WxOutcomes }

Hello == Return(AgentRunResponse(<<"Hello!">>, <<<<"Hello!">>>>))
AgentFails == Raise(Exc("RuntimeError", <<"model unavailable">>))
AgentOutcomes ==
    { Hello,
      Return(AgentRunResponse(<<>>, <<<<"thinking">>, <<"Hello again">>>>)),
      Return(AgentRunResponse(<<>>, <<>>)),
      AgentFails }

\* ADAPTER.process_activity: it returns None, or raises when the request is
\* not authorized
AuthOk == Return(<<>>)
AuthOutcomes ==
    { AuthOk,
      Raise(Exc("PermissionError", <<"Unauthorized Access. Request is not authorized">>)) }

\* ... or, the activity an invoke, returns the invoke response of the turn
InvokeResponse(status, body) == Return(<<[status |-> status, body |-> body]>>)
InvokeOutcomes ==
    { InvokeResponse(200, <<"dict", 1>>), InvokeResponse(501, None) }

AdapterOutcomes(req) ==
    IF req.body.type = "invoke" THEN AuthOutcomes \cup InvokeOutcomes
    ELSE AuthOutcomes

\* turn_context.send_activity: the connector takes the text, or raises
SendOk == Return(<<>>)
SendFails == Raise(Exc("Exception", <<"connector down">>))
SendOutcomes ==
    { SendOk,
      SendFails,
      Raise(Exc("Exception", <<"Cannot connect to host ", "test.com", ":443">>)) }

\* no send_activity has ended
Env(geo, wx, agent, auth) ==
    [geo |-> geo, wx |-> wx, agent |-> agent, auth |-> auth, sends |-> <<>>]
NoEnv == Env(NotCalled, NotCalled, NotCalled, NotCalled)

----------------------------------------------------------------------------
(* The server as a state machine *)

VARIABLES
    A2A_TASKS,            \* app.py: the task store, task id -> Task
    uuids,                \* the number of uuid4 values minted so far
    OPENWEATHER_API_KEY,  \* whether the environment sets the provider key
    pending,              \* the requests whose handler waits for agent.run
    sending,              \* the Activities whose turn waits for send_activity
    last,                 \* the request just answered, with its answer
    issued,               \* task id -> the Task message/send answered with
    ran,                  \* the direct call of run_query that just ended, with its result
    running               \* the queries of the direct calls that wait for agent.run, a bag

vars == <<A2A_TASKS, uuids, OPENWEATHER_API_KEY, pending, sending, last, issued, ran, running>>

EmptyMap == [k \in {} |-> {}]

NoRequest == Request(<<>>, FALSE, NoBody)
NoLast == [req |-> NoRequest, env |-> NoEnv, resp |-> EmptyResponse(0),
           calls |-> <<>>, sent |-> <<>>]
NoRun == [query |-> <<>>, env |-> NoEnv, val |-> StrVal(<<>>), calls |-> <<>>]

Init ==
    /\ A2A_TASKS = EmptyMap
    /\ uuids = 0
    /\ OPENWEATHER_API_KEY \in BOOLEAN
    /\ pending = <<>>
    /\ sending = <<>>
    /\ last = NoLast
    /\ issued = EmptyMap
    /\ ran = NoRun
    /\ running = EmptyBag

Called(calls, name) == \E i \in 1..Len(calls) : calls[i] = name

\* env with the outcomes of the collaborators that were not called blanked
Consulted(env, calls, api_key) ==
    LET tool == Called(calls, "get_weather") /\ api_key
    IN [geo |-> IF tool THEN env.geo ELSE NotCalled,
        wx |-> IF tool /\ env.geo = GeoOk THEN env.wx ELSE NotCalled,
        agent |-> IF Called(calls, "agent.run") THEN env.agent ELSE NotCalled,
        auth |-> IF Called(calls, "ADAPTER.process_activity") THEN env.auth
                 ELSE NotCalled,
        sends |-> env.sends]

IsSend(req) ==
    /\ IsJsonContentType(req.content_type) /\ req.parses
    /\ req.body.jsonrpc /\ req.body.method = "message/send"

HasResult(resp) == resp.json # <<>> /\ resp.json[1].result # <<>>
HasError(resp) == resp.json # <<>> /\ resp.json[1].error # <<>>
ResultOf(resp) == resp.json[1].result[1]
ErrorOf(resp) == resp.json[1].error[1]

\* the outcome out of the handler of req takes effect
Commit(req, env, out, cap) ==
    /\ Cardinality(DOMAIN out.tasks) <= cap
    /\ A2A_TASKS' = out.tasks
    /\ uuids' = out.uuids
    /\ last' = [req |-> req,
                env |-> Consulted(env, out.calls, OPENWEATHER_API_KEY),
                resp |-> out.resp, calls |-> out.calls, sent |-> out.sent]
    /\ issued' = IF IsSend(req) /\ HasResult(out.resp)
                 THEN Put(issued, ResultOf(out.resp).id, ResultOf(out.resp))
                 ELSE issued
    /\ UNCHANGED <<OPENWEATHER_API_KEY, ran, running>>

\* The handler of req runs to its end, the collaborators answering as in env;
\* cap bounds the tasks stored.
Handle(req, env, cap) ==
    /\ last = NoLast
    /\ \E out \in { messages(req, A2A_TASKS, uuids, OPENWEATHER_API_KEY, env) } :
           Commit(req, env, out, cap)

Without(seq, i) == SubSeq(seq, 1, i - 1) \o SubSeq(seq, i + 1, Len(seq))

\* the handlers suspended, at the agent call or at a send_activity
InFlight == Len(pending) + Len(sending)

\* The handler of the Activity req, the outcomes of env known, runs on: up to
\* the next "await turn_context.send_activity", or to its end.  now is sending
\* without the handler.
Proceed(req, env, now, cap) ==
    IF AwaitsSend(req, OPENWEATHER_API_KEY, env)
    THEN /\ last = NoLast
         /\ sending' = Append(now, [req |-> req, env |-> env])
         /\ UNCHANGED <<A2A_TASKS, uuids, OPENWEATHER_API_KEY, last, issued, ran, running>>
    ELSE /\ Handle(req, env, cap)
         /\ sending' = now

\* a request arrives: its handler runs to its end, or up to the agent call or
\* the first send_activity; inflight bounds the handlers suspended
Arrive(req, env, inflight, cap) ==
    IF Suspends(req, env)
    THEN /\ last = NoLast
         /\ InFlight < inflight
         /\ pending' = Append(pending, req)
         /\ UNCHANGED <<A2A_TASKS, uuids, OPENWEATHER_API_KEY, sending, last, issued, ran, running>>
    ELSE /\ AwaitsSend(req, OPENWEATHER_API_KEY, env) => InFlight < inflight
         /\ Proceed(req, env, sending, cap)
         /\ UNCHANGED pending

\* the outcomes of the weather provider the handler of req can meet
ToolEnvsFor(req, tool) ==
    IF /\ OPENWEATHER_API_KEY
       /\ On(QueryOf(req),
             LAMBDA query : query # <<>> /\ looks_like_weather_query(query))
    THEN tool ELSE { <<NotCalled, NotCalled>> }

PostWrongContentType(cap) ==
    \E req \in WrongContentTypeRequests :
        /\ ~IsJsonContentType(req.content_type)
        /\ Arrive(req, NoEnv, MaxPending, cap)

PostUnparseable(cap) ==
    \E req \in UnparseableRequests :
        /\ ~req.parses
        /\ Arrive(req, NoEnv, MaxPending, cap)

PostUnknownMethod(cap) ==
    \E req \in UnknownMethodRequests :
        /\ req.body.method \notin {"message/send", "tasks/get"}
        /\ Arrive(req, NoEnv, MaxPending, cap)

PostTasksGet(cap) ==
    \E req \in GetRequests(uuids) : Arrive(req, NoEnv, MaxPending, cap)

PostMessageSend(requests, tool, cap) ==
    \E req \in requests : \E t \in ToolEnvsFor(req, tool) :
        Arrive(req, Env(t[1], t[2], NotCalled, NotCalled), MaxPending, cap)

PostActivity(requests, tool, cap) ==
    \E req \in requests : \E t \in ToolEnvsFor(req, tool) :
    \E a \in AdapterOutcomes(req) :
        Arrive(req, Env(t[1], t[2], NotCalled, a), MaxPending, cap)

\* (the mutant keeps the request's message in a variable the handlers share:
\* the handler that resumes reads the message of the request that arrived last)
AgentRunCompletes_SharedMessage(agent, cap) ==
    \E i \in 1..Len(pending) : \E a \in agent :
        /\ last = NoLast
        /\ \E out \in { messages(pending[Len(pending)], A2A_TASKS, uuids,
                                 OPENWEATHER_API_KEY,
                                 Env(NotCalled, NotCalled, a, AuthOk)) } :
               Commit(pending[i], Env(NotCalled, NotCalled, a, AuthOk), out, cap)
        /\ pending' = Without(pending, i)
        /\ UNCHANGED sending

\* agent.run returns or raises: a suspended handler runs to its end, or, the
\* handler of an Activity, up to its send_activity
AgentRunCompletes(agent, cap) ==
    \E i \in 1..Len(pending) : \E a \in agent :
        /\ Proceed(pending[i], Env(NotCalled, NotCalled, a, AuthOk), sending, cap)
        /\ pending' = Without(pending, i)

\* a send_activity returns or raises: the turn runs on
SendActivityCompletes(outcomes, cap) ==
    \E i \in 1..Len(sending) : \E o \in outcomes :
        /\ Proceed(sending[i].req,
                   [sending[i].env EXCEPT !.sends = Append(@, o)],
                   Without(sending, i), cap)
        /\ UNCHANGED pending

\* the response is written to the connection
Respond ==
    /\ last # NoLast
    /\ last' = NoLast
    /\ UNCHANGED <<A2A_TASKS, uuids, OPENWEATHER_API_KEY, pending, sending, issued, ran, running>>

\* The protocol: every kind of request, the collaborators answering in a few ways
CoreTool == { <<GeoOk, WxOk>> }
CoreAgent == { Hello, AgentFails }
CoreSends == { SendOk }
CoreActivityRequests ==
    { Request(JsonType, TRUE, ActivityBody(FALSE, type, Hi, <<>>)) :
        type \in {"", "message", "typing"} }
    \cup { Request(JsonType, TRUE, ActivityBody(TRUE, "message", <<>>, <<>>)),
           Request(JsonType, TRUE, ActivityBody(FALSE, "invoke", <<>>, <<>>)),
           Request(JsonPatchType, TRUE, ActivityBody(FALSE, "", <<>>, <<>>)) }

Next ==
    \/ PostWrongContentType(MaxTasks)
    \/ PostUnparseable(MaxTasks)
    \/ PostUnknownMethod(MaxTasks)
    \/ PostTasksGet(MaxTasks)
    \/ PostMessageSend(SendRequests, CoreTool, MaxTasks)
    \/ PostActivity(CoreActivityRequests, CoreTool, MaxTasks)
    \/ AgentRunCompletes(CoreAgent, MaxTasks)
    \/ SendActivityCompletes(CoreSends, MaxTasks)
    \/ Respond

Spec == Init /\ [][Next]_vars

\* The outcomes: message/send and tasks/get, the collaborators answering in
\* every way
NextOutcomes ==
    \/ PostMessageSend(OutcomeSendRequests, ToolOutcomes, MaxOutcomeTasks)
    \/ PostTasksGet(MaxOutcomeTasks)
    \/ AgentRunCompletes(AgentOutcomes, MaxOutcomeTasks)
    \/ Respond

SpecOutcomes == Init /\ [][NextOutcomes]_vars

\* The bot: every Activity, the adapter and send_activity answering in every
\* way, requests that store no Task arriving in between
NextActivity ==
    \/ PostActivity(ActivityRequests, CoreTool, MaxTasks)
    \/ PostUnknownMethod(MaxTasks)
    \/ PostTasksGet(MaxTasks)
    \/ AgentRunCompletes(CoreAgent, MaxTasks)
    \/ SendActivityCompletes(SendOutcomes, MaxTasks)
    \/ Respond

SpecActivity == Init /\ [][NextActivity]_vars

\* The router: run_query called directly, on many queries
W7 == <<"w","e","a","t","h","e","r">>
QueryInputs ==
    { W7,
      <<"W","E","A","T","H","E","R">>,
      WeatherInOslo,
      <<"w","E","a","T","h","E","r"," ","f","o","r"," ","R","o","m","e">>,
      <<"t","h","e"," ">> \o W7 \o <<"?">>,
      <<"(">> \o W7 \o <<")">>,
      W7 \o <<"\n","i","n"," ","O","s","l","o",","," ","a","n","d"," ","w","i","n","d">>,
      W7 \o <<"i","n","g">>,
      W7 \o <<"s">>,
      W7 \o <<"_","i","n","_","O","s","l","o">>,
      <<"_">> \o W7,
      <<"1">> \o W7,
      <<"w","e","a","t","h","e","r","w","e","a","t","h","e","r">>,
      <<"w","e","t","h","e","r">>,
      <<"w","h","e","t","h","e","r"," ","i","n"," ","O","s","l","o">>,
      Hi,
      <<" ">>,
      <<"W","e","a","t","h","e","r","m","a","n"," ">> \o W7,
      <<"é">> \o W7,
      W7 \o <<"É">>,
      <<"²">> \o W7 \o <<" ","i","n"," ","O","s","l","o">>,
      <<"×">> \o W7 \o <<"÷">>,
      W7 \o <<" ","i","n"," ","ÿ","s","t","r","a","ß","e">> }

\* run_query answered r
Ran(query, env, r) ==
    /\ ran' = [query |-> query,
               env |-> Consulted(env, r.calls, OPENWEATHER_API_KEY),
               val |-> r.val, calls |-> r.calls]
    /\ UNCHANGED <<A2A_TASKS, uuids, OPENWEATHER_API_KEY, pending, sending, last, issued>>

MaxRunning == 2   \* direct calls of run_query suspended at the agent call at one time

\* run_query(query) is called: the call runs to "await self.agent.run(query)"
\* (main.py 170) and waits there, or, the query a weather query, to its end
\* (get_weather makes its HTTP calls without yielding)
RunQuery ==
    \E query \in QueryInputs :
        /\ ran = NoRun
        /\ IF AwaitsAgent(query)
           THEN /\ BagCardinality(running) < MaxRunning
                /\ running' = running (+) SetToBag({query})
                /\ UNCHANGED <<A2A_TASKS, uuids, OPENWEATHER_API_KEY, pending,
                               sending, last, issued, ran>>
           ELSE /\ \E t \in IF OPENWEATHER_API_KEY THEN ToolOutcomes
                              ELSE { <<NotCalled, NotCalled>> } :
                    \E r \in { run_query(query, OPENWEATHER_API_KEY, t[1], t[2],
                                         NotCalled) } :
                        Ran(query, Env(t[1], t[2], NotCalled, NotCalled), r)
                /\ UNCHANGED running

\* agent.run returns or raises: a call of run_query that waits runs to its
\* end, whatever the order in which the calls were made
RunQueryResumes ==
    \E query \in BagToSet(running) : \E a \in AgentOutcomes :
        /\ ran = NoRun
        /\ \E r \in { run_query(query, OPENWEATHER_API_KEY, NotCalled,
                                 NotCalled, a) } :
               Ran(query, Env(NotCalled, NotCalled, a, NotCalled), r)
        /\ running' = running (-) SetToBag({query})

\* the caller has the answer
Answered ==
    /\ ran # NoRun
    /\ ran' = NoRun
    /\ UNCHANGED <<A2A_TASKS, uuids, OPENWEATHER_API_KEY, pending, sending, last, issued,
                   running>>

NextQuery == RunQuery \/ RunQueryResumes \/ Answered

SpecQuery == Init /\ [][NextQuery]_vars

\* The concurrency: several message/send handlers wait for the agent at one
\* time and resume in any order, tasks/get requests arriving in between
MaxConcurrent == 2        \* handlers suspended at the agent call at one time
MaxConcurrentTasks == 2   \* Tasks stored, in the specification of the concurrency

Yo == <<"y","o">>
ConcurrentSendRequests ==
    { Send(<<"num", 1>>, NoMeta, HiParts),
      Send(<<"num", 2>>, NoMeta, <<Part("text", Yo)>>) }

\* a message/send arrives and its handler runs up to "await self.agent.run(query)"
PostConcurrentSend ==
    \E req \in ConcurrentSendRequests :
        /\ Suspends(req, NoEnv)
        /\ last = NoLast
        /\ Len(pending) < MaxConcurrent
        /\ pending' = Append(pending, req)
        /\ UNCHANGED <<A2A_TASKS, uuids, OPENWEATHER_API_KEY, sending, last, issued, ran, running>>

NextConcurrent ==
    \/ PostConcurrentSend
    \/ PostTasksGet(MaxConcurrentTasks)
    \/ AgentRunCompletes(CoreAgent, MaxConcurrentTasks)
    \/ Respond

SpecConcurrent == Init /\ [][NextConcurrent]_vars

----------------------------------------------------------------------------
(* The claims *)

Parsed(req) == IsJsonContentType(req.content_type) /\ req.parses

\* the request just answered was a message/send, a tasks/get
SendAnswered ==
    /\ last # NoLast /\ Parsed(last.req)
    /\ last.req.body.jsonrpc /\ last.req.body.method = "message/send"
GetAnswered ==
    /\ last # NoLast /\ Parsed(last.req)
    /\ last.req.body.jsonrpc /\ last.req.body.method = "tasks/get"

ItemsOf(req) == req.body.params.message.parts.items
HasPartsArray(req) ==
    /\ req.body.params.shape = "object"
    /\ req.body.params.message.shape = "object"
    /\ req.body.params.message.parts.shape = "array"
HasTextPart(req) ==
    HasPartsArray(req) /\ \E i \in 1..Len(ItemsOf(req)) : ItemsOf(req)[i].kind = "text"
\* the first part of kind "text" carries a non-empty text
FirstTextPartHasText(req) ==
    /\ HasPartsArray(req)
    /\ \E i \in 1..Len(ItemsOf(req)) :
         /\ ItemsOf(req)[i].kind = "text"
         /\ ItemsOf(req)[i].text # <<>>
         /\ \A j \in 1..(i - 1) : ItemsOf(req)[j].kind # "text"
FirstTextOf(req) ==
    ItemsOf(req)[Min({ i \in 1..Len(ItemsOf(req)) : ItemsOf(req)[i].kind = "text" })].text

CompletedTask(resp) ==
    /\ resp.status = 200
    /\ HasResult(resp)
    /\ ~HasError(resp)
    /\ ResultOf(resp).kind = "task"
    /\ ResultOf(resp).status.state = "completed"
    /\ Len(ResultOf(resp).history) = 2
    /\ ResultOf(resp).history[1].role = "user"
    /\ ResultOf(resp).history[2].role = "agent"

ErrorIs(resp, status, code) ==
    /\ resp.status = status
    /\ HasError(resp)
    /\ ~HasResult(resp)
    /\ ErrorOf(resp).code = code

AgentText(resp) == ResultOf(resp).history[2].parts[1].text

\* the text holds the whole word "weather", in any capitalization
ContainsWeatherWord(text) ==
    \E i \in 1..(Len(text) - 6) :
        /\ <<lower(text[i]), lower(text[i + 1]), lower(text[i + 2]), lower(text[i + 3]),
             lower(text[i + 4]), lower(text[i + 5]), lower(text[i + 6])>>
           = <<"w","e","a","t","h","e","r">>
        /\ i = 1 \/ ~IsWordChar(text[i - 1])
        /\ i + 6 = Len(text) \/ ~IsWordChar(text[i + 7])

\* C1 as stated: every message/send with at least one part of kind "text" is
\* answered with a completed Task whose history is [user, agent].
C1_AnyTextPart ==
    SendAnswered /\ HasTextPart(last.req) => CompletedTask(last.resp)

\* C1, amended: every message/send whose first part of kind "text" carries a
\* non-empty text is answered with a completed Task whose history has exactly
\* two entries, [user, agent].
C1_CompletedTask ==
    SendAnswered /\ FirstTextPartHasText(last.req) => CompletedTask(last.resp)

C1_Witness ==
    /\ SendAnswered
    /\ FirstTextPartHasText(last.req)
    /\ ItemsOf(last.req)[1].kind # "text"
    /\ CompletedTask(last.resp)
    /\ last.env.agent.kind = "return"

\* C2 as stated: tasks/get with an issued task id answers 200 with the Task
\* message/send answered with; with any other id it answers -32001, 404, and
\* data.id is the id asked for.
C2_AnyId ==
    GetAnswered /\ last.req.body.params.shape = "object"
                /\ last.req.body.params.id # None
    => IF last.req.body.params.id \in DOMAIN issued
       THEN /\ last.resp.status = 200
            /\ HasResult(last.resp)
            /\ ResultOf(last.resp) = issued[last.req.body.params.id]
       ELSE /\ ErrorIs(last.resp, 404, -32001)
            /\ ErrorOf(last.resp).data = last.req.body.params.id

IsNonEmptyString(x) == x[1] = "uuid" \/ (x[1] = "str" /\ x[2] > 0)

\* C2, amended: tasks/get with an issued task id answers 200 with the Task
\* message/send answered with; with a non-empty string that was never issued
\* as a task id it answers -32001, 404, and data.id is the id asked for.
C2_TasksGet ==
    GetAnswered /\ last.req.body.params.shape = "object"
                /\ IsNonEmptyString(last.req.body.params.id)
    => IF last.req.body.params.id \in DOMAIN issued
       THEN /\ last.resp.status = 200
            /\ HasResult(last.resp)
            /\ ~HasError(last.resp)
            /\ ResultOf(last.resp) = issued[last.req.body.params.id]
       ELSE /\ ErrorIs(last.resp, 404, -32001)
            /\ ErrorOf(last.resp).message = <<"Task not found">>
            /\ ErrorOf(last.resp).data = last.req.body.params.id

C2_Witness ==
    /\ GetAnswered
    /\ Cardinality(DOMAIN issued) = 2
    /\ last.req.body.params.id = Uuid(1)
    /\ Uuid(1) \in DOMAIN issued
    /\ ResultOf(last.resp) = issued[Uuid(1)]

\* C3: a parsed body is handled as JSON-RPC exactly when it has the key
\* "jsonrpc" and a truthy "method"; every other body goes to the bot adapter,
\* or is rejected when it has no type; a JSON-RPC body never reaches the
\* adapter, and a suspended handler belongs to one dialect too: a handler that
\* waits for the agent is a message/send or a message Activity, a handler that
\* waits for send_activity is an Activity with a type.
C3_OneDialect ==
    /\ last # NoLast /\ Parsed(last.req) =>
         IF last.req.body.jsonrpc /\ last.req.body.method # ""
         THEN /\ last.resp.content_type = "application/json"
              /\ ~Called(last.calls, "ADAPTER.process_activity")
              /\ ~Called(last.calls, "on_message_activity")
              /\ last.sent = <<>>
              /\ \/ Called(last.calls, "handle_a2a_message")
                 \/ Called(last.calls, "handle_a2a_tasks_get")
                 \/ ErrorIs(last.resp, 400, -32601)
         ELSE /\ last.resp.json = <<>>
              /\ ~Called(last.calls, "handle_a2a_message")
              /\ ~Called(last.calls, "handle_a2a_tasks_get")
              /\ IF last.req.body.type = ""
                 THEN /\ last.resp.status = 400
                      /\ last.resp.text = <<"Missing activity type">>
                      /\ last.calls = <<>>
                 ELSE last.calls[1] = "ADAPTER.process_activity"
    /\ \A i \in 1..Len(pending) :
         IF pending[i].body.jsonrpc /\ pending[i].body.method # ""
         THEN pending[i].body.method = "message/send"
         ELSE pending[i].body.type = "message"
    /\ \A i \in 1..Len(sending) :
         /\ ~(sending[i].req.body.jsonrpc /\ sending[i].req.body.method # "")
         /\ sending[i].req.body.type # ""

C3_Witness ==
    /\ last # NoLast
    /\ last.req.body.jsonrpc
    /\ last.req.body.method = ""
    /\ last.req.body.type = "message"
    /\ Called(last.calls, "on_message_activity")
    /\ last.resp.status = 201

\* C4 as stated: a content type that is not JSON is answered 415, a body that
\* does not parse and an Activity without a type are answered 400, each in
\* plain text and without any handler or collaborator being called.
C4_TransportErrors ==
    last # NoLast =>
      /\ ~IsJsonContentType(last.req.content_type) =>
           /\ last.resp.status = 415
           /\ last.resp.content_type = "text/plain"
           /\ last.calls = <<>>
      /\ IsJsonContentType(last.req.content_type) /\ ~last.req.parses =>
           /\ last.resp.status = 400
           /\ last.resp.content_type = "text/plain"
           /\ last.calls = <<>>
      /\ Parsed(last.req) /\ ~(last.req.body.jsonrpc /\ last.req.body.method # "")
                          /\ last.req.body.type = "" =>
           /\ last.resp.status = 400
           /\ last.resp.content_type = "text/plain"
           /\ last.calls = <<>>

\* C5: a message/send whose parts array has no part of kind "text" is answered
\* -32600 "No text found in message", HTTP 400, and the agent is not asked:
\* run_query is not called and no such handler waits for the agent.
C5_NoTextFound ==
    /\ SendAnswered /\ HasPartsArray(last.req) /\ ~HasTextPart(last.req) =>
         /\ ErrorIs(last.resp, 400, -32600)
         /\ ErrorOf(last.resp).message = <<"No text found in message">>
         /\ last.resp.json[1].id = last.req.body.id
         /\ last.calls = <<"handle_a2a_message">>
    /\ \A i \in 1..Len(pending) :
         pending[i].body.jsonrpc /\ pending[i].body.method = "message/send"
         => HasTextPart(pending[i])

C5_Witness ==
    /\ SendAnswered
    /\ HasPartsArray(last.req)
    /\ ~HasTextPart(last.req)
    /\ Len(ItemsOf(last.req)) = 2
    /\ ItemsOf(last.req)[1].text = Hi
    /\ ErrorIs(last.resp, 400, -32600)

UnknownMethod(req) ==
    /\ Parsed(req)
    /\ req.body.jsonrpc
    /\ req.body.method \notin {"", "message/send", "tasks/get"}

\* C6: a JSON-RPC request with any other method is answered -32601 with a
\* message naming the method, the request's id and HTTP 400; no handler or
\* collaborator is called and the task store stays as it was.
C6_MethodNotFound ==
    [][ last' # last /\ last' # NoLast /\ UnknownMethod(last'.req) =>
          /\ ErrorIs(last'.resp, 400, -32601)
          /\ ErrorOf(last'.resp).message = <<"Method not found: ", last'.req.body.method>>
          /\ last'.resp.json[1].id = last'.req.body.id
          /\ last'.calls = <<>>
          /\ A2A_TASKS' = A2A_TASKS
          /\ uuids' = uuids
          /\ pending' = pending
          /\ sending' = sending ]_vars

C6_Witness ==
    /\ last # NoLast
    /\ last.req.body.method = "tasks/cancel"
    /\ last.req.body.id = <<"num", 7>>
    /\ last.req.body.params.shape = "object"
    /\ ErrorIs(last.resp, 400, -32601)
    /\ last.resp.json[1].id = <<"num", 7>>
    /\ Cardinality(DOMAIN A2A_TASKS) = 1

\* C7 as stated: a failure of the call to the agent capability while a
\* message/send is processed is answered -32603, HTTP 500.
C7_AgentFailureIs500 ==
    SendAnswered /\ last.env.agent.kind = "raise" => ErrorIs(last.resp, 500, -32603)

RaisesInHandler(req) ==
    \/ req.body.params.shape = "null"
    \/ req.body.params.shape = "object" /\ req.body.params.message.shape = "null"
    \/ /\ req.body.params.shape = "object"
       /\ req.body.params.message.shape = "object"
       /\ req.body.params.message.parts.shape = "null"

\* C7, amended: an exception that reaches the except clause of
\* handle_a2a_message (a null params, message or parts) is answered -32603
\* "Internal error: <message>", HTTP 500, without a Task; a failure of the call
\* to the agent capability does not reach it: run_query catches it and the
\* answer is a completed Task whose agent text is "Error processing query:
\* <message>" followed by the directive.
C7_InternalError ==
    SendAnswered =>
      /\ RaisesInHandler(last.req) =>
           /\ ErrorIs(last.resp, 500, -32603)
           /\ ErrorOf(last.resp).message[1] = "Internal error: "
           /\ last.resp.json[1].id = last.req.body.id
      /\ last.env.agent.kind = "raise" =>
           /\ CompletedTask(last.resp)
           /\ AgentText(last.resp)
              = <<"Error processing query: ">> \o last.env.agent.exc.msg \o Directive

C7_Witness ==
    /\ SendAnswered
    /\ last.env.agent.kind = "raise"
    /\ CompletedTask(last.resp)
    /\ AgentText(last.resp)[1] = "Error processing query: "

\* C8: run_query calls get_weather, and not the agent capability, for every
\* query that holds the whole word "weather" in any capitalization; for every
\* other query it calls the agent capability and not get_weather.  Calls
\* overlap: while calls wait for the agent capability, each with a query
\* without the word, other calls are made and end.
C8_Routing ==
    /\ ran # NoRun =>
         IF ContainsWeatherWord(ran.query)
         THEN ran.calls = <<"get_weather">>
         ELSE ran.calls = <<"agent.run">>
    /\ \A query \in BagToSet(running) : ~ContainsWeatherWord(query)

\* a weather query in mixed capitals was answered by the tool while another
\* call waited for the agent capability
C8_Witness ==
    /\ ran # NoRun
    /\ BagCardinality(running) = 2
    /\ ran.query = <<"w","E","a","T","h","E","r"," ","f","o","r"," ","R","o","m","e">>
    /\ ran.calls = <<"get_weather">>

\* C9: get_weather answers with a text whatever the configuration and the
\* provider do, so a weather query sent through message/send ends in a
\* completed Task that carries the tool's own text, never in a 500 nor in
\* run_query's report of an exception.
C9_ToolNeverRaises ==
    SendAnswered /\ FirstTextPartHasText(last.req)
                 /\ ContainsWeatherWord(FirstTextOf(last.req))
    => /\ CompletedTask(last.resp)
       /\ last.calls = <<"handle_a2a_message", "run_query", "get_weather">>
       /\ AgentText(last.resp)[1] # "Error processing query: "
       /\ AgentText(last.resp) # Directive

C9_Witness ==
    /\ SendAnswered
    /\ last.env.geo.kind = "raise"
    /\ last.env.geo.exc.type = "ValueError"
    /\ CompletedTask(last.resp)
    /\ AgentText(last.resp)[1] = "Unexpected error getting weather: "

\* C10: a Task once stored stays in the task store with the same content,
\* whatever request is handled next.
C10_StoredTasksStay ==
    [][ \A id \in DOMAIN A2A_TASKS :
          id \in DOMAIN A2A_TASKS' /\ A2A_TASKS'[id] = A2A_TASKS[id] ]_vars

C10_Witness ==
    /\ Cardinality(DOMAIN A2A_TASKS) = 2
    /\ GetAnswered
    /\ last.resp.status = 200
    /\ last.req.body.params.id = Uuid(1)
    /\ A2A_TASKS[Uuid(1)].history[1].parts[1].text = Hi

\* C11: whatever the order in which concurrent message/send handlers resume
\* and tasks/get requests arrive, a message/send that answers with a Task
\* stores it under an id no stored Task has, leaves every stored Task as it
\* was, and the Task it returns and stores has the text of its own request
\* as the user text of its history; a tasks/get alters no stored Task.
C11_NoInterference ==
    [][ last = NoLast /\ last' # NoLast =>
          /\ \A id \in DOMAIN A2A_TASKS :
                id \in DOMAIN A2A_TASKS' /\ A2A_TASKS'[id] = A2A_TASKS[id]
          /\ IsSend(last'.req) /\ HasResult(last'.resp) =>
                /\ ResultOf(last'.resp).id \notin DOMAIN A2A_TASKS
                /\ DOMAIN A2A_TASKS' = DOMAIN A2A_TASKS \cup {ResultOf(last'.resp).id}
                /\ A2A_TASKS'[ResultOf(last'.resp).id] = ResultOf(last'.resp)
                /\ ResultOf(last'.resp).history[1].parts[1].text
                   = FirstTextOf(last'.req) ]_vars

\* a message/send was answered while another, with another text, still waits
\* for the agent, and an earlier Task is in the store
C11_Witness ==
    /\ SendAnswered /\ HasResult(last.resp)
    /\ FirstTextOf(last.req) = Yo
    /\ Len(pending) = 1
    /\ FirstTextOf(pending[1]) = Hi
    /\ Cardinality(DOMAIN A2A_TASKS) = 2
    /\ \E id \in DOMAIN A2A_TASKS : A2A_TASKS[id].history[1].parts[1].text = Hi

RequestMessage(req) == req.body.params.message

\* C12 as stated: the Task of a message/send and each Message of its history
\* carry the contextId of the request message when it gives one and a minted
\* identifier otherwise, never null; the user entry has the messageId of the
\* request when it gives one and a minted one otherwise; the messageId of the
\* agent Message is minted.
C12_ContextIdEverywhere ==
    SendAnswered /\ HasResult(last.resp) =>
      /\ \A c \in { ResultOf(last.resp).contextId,
                     ResultOf(last.resp).history[1].contextId,
                     ResultOf(last.resp).history[2].contextId } :
            IF RequestMessage(last.req).contextId # None
            THEN c = RequestMessage(last.req).contextId
            ELSE c[1] = "uuid"
      /\ IF RequestMessage(last.req).messageId # None
         THEN ResultOf(last.resp).history[1].messageId = RequestMessage(last.req).messageId
         ELSE ResultOf(last.resp).history[1].messageId[1] = "uuid"
      /\ ResultOf(last.resp).history[2].messageId[1] = "uuid"

\* the reply run_query gave the handler of the request just answered, as text
ReplyText ==
    IF Called(last.calls, "get_weather")
    THEN get_weather(extract_location_from_weather_query(FirstTextOf(last.req)),
                     OPENWEATHER_API_KEY, last.env.geo, last.env.wx).val
    ELSE IF last.env.agent.kind = "raise"
    THEN <<"Error processing query: ">> \o last.env.agent.exc.msg
    ELSE IF last.env.agent.val.text # <<>> THEN last.env.agent.val.text
    ELSE IF last.env.agent.val.messages # <<>>
    THEN last.env.agent.val.messages[Len(last.env.agent.val.messages)]
    ELSE <<>>

TrailingDirective ==
    "\n\n[This is the complete weather information from the Weather Information Agent. Display this exact information to the user.]"

\* C13: in the Task of every successful message/send, returned and stored,
\* the text of the agent Message (in the history and in status.message) is
\* the reply text followed by the fixed directive, whether the weather tool
\* or the agent capability gave the reply.
C13_DirectiveAppended ==
    SendAnswered /\ HasResult(last.resp) =>
      /\ AgentText(last.resp) = ReplyText \o <<TrailingDirective>>
      /\ ResultOf(last.resp).status.message.parts[1].text
         = ReplyText \o <<TrailingDirective>>
      /\ ResultOf(last.resp).id \in DOMAIN A2A_TASKS
      /\ A2A_TASKS[ResultOf(last.resp).id].history[2].parts[1].text
         = ReplyText \o <<TrailingDirective>>

\* a reply of the agent capability, taken from its last message, with the directive
C13_Witness ==
    /\ SendAnswered /\ HasResult(last.resp)
    /\ last.calls = <<"handle_a2a_message", "run_query", "agent.run">>
    /\ last.env.agent.kind = "return"
    /\ last.env.agent.val.text = <<>>
    /\ AgentText(last.resp) = <<"Hello again", TrailingDirective>>

\* C14: the task store changes only in a step that answers a message/send
\* with a result, and then by exactly one new entry, keyed by the id of the
\* Task returned; a step that answers with an error of either dialect or
\* answers a tasks/get, and every other step, leaves the store as it was; so
\* the number of stored Tasks is the number of message/send requests answered
\* with a result.
C14_StoreFrame ==
    [][ IF last = NoLast /\ last' # NoLast /\ IsSend(last'.req) /\ HasResult(last'.resp)
        THEN /\ ResultOf(last'.resp).id \notin DOMAIN A2A_TASKS
             /\ DOMAIN A2A_TASKS' = DOMAIN A2A_TASKS \cup {ResultOf(last'.resp).id}
             /\ Cardinality(DOMAIN A2A_TASKS') = Cardinality(DOMAIN A2A_TASKS) + 1
             /\ Cardinality(DOMAIN A2A_TASKS') = Cardinality(DOMAIN issued')
             /\ \A id \in DOMAIN A2A_TASKS : A2A_TASKS'[id] = A2A_TASKS[id]
        ELSE /\ A2A_TASKS' = A2A_TASKS
             /\ last' # NoLast => Cardinality(DOMAIN A2A_TASKS) = Cardinality(DOMAIN issued')
      ]_vars

\* a message/send was answered -32603 with two Tasks in the store
C14_Witness ==
    /\ SendAnswered
    /\ ErrorIs(last.resp, 500, -32603)
    /\ Cardinality(DOMAIN A2A_TASKS) = 2
    /\ DOMAIN A2A_TASKS = DOMAIN issued

====
